---- MODULE Spec2Model ----
(***************************************************************************)
(* Model of sleekxmpp/xmlstream/scheduler.py: the Task record, the         *)
(* Scheduler's loop thread (_process), and the public operations add,      *)
(* remove, quit and process, called from one other thread and, for add     *)
(* and remove, from the callbacks the loop thread runs.  Time is a         *)
(* discrete clock.  Each statement group of _process between two points    *)
(* where another thread can interleave is one action.                      *)
(***************************************************************************)
EXTENDS Integers, Sequences, FiniteSets, TLC

\* ---------------------------------------------------------------- bounds
MaxTime == 2
MaxAdds == 2
MaxSeconds == 2

\* ------------------------------------------------------ program constants
DefaultWait == 1
MaxWait == 3

Names == {"a", "b"}
None == "None"
TaskIds == 1..MaxAdds

\* The arguments add is called with: both names, a short and a long
\* interval and one beyond the longest wait of the loop, repeating or not,
\* with and without a qpointer.
AddArgs ==
    { [name |-> "a", seconds |-> 1, repeat |-> FALSE, qpointer |-> None],
      [name |-> "b", seconds |-> MaxSeconds, repeat |-> TRUE,
       qpointer |-> None],
      [name |-> "b", seconds |-> 1, repeat |-> TRUE, qpointer |-> "Q"],
      [name |-> "a", seconds |-> MaxWait + 1, repeat |-> FALSE,
       qpointer |-> "Q"] }

VARIABLES
    now,            \* time.time()
    schedule,       \* Scheduler.schedule: sequence of Task records
    addq,           \* Scheduler.addq: FIFO of Task records
    lockOwner,      \* schedule_lock (RLock): owning thread, or None
    lockCount,      \* schedule_lock (RLock): recursion count
    run,            \* Scheduler.run
    stop,           \* stopevent.isSet()
    pc,             \* position of the loop thread in _process
    wait,           \* local of _process
    updated,        \* local of _process
    cleanup,        \* local of _process: ids of the tasks to pop
    newtask,        \* local of _process: task taken from addq, or NoTask
    idx,            \* position of "for task in self.schedule"
    curtask,        \* local "task" of _process: the task being run, or NoTask
    exc,            \* exception propagating in the loop thread
    nextId,         \* identity of the next Task object, while none is reused
    cpc,            \* position of the calling thread: idle, add, remove
    cname,          \* name argument of the call in progress
    cres,           \* outcome of the call in progress / last call
    called,         \* per task: inline invocations of its callback
    runs,           \* per task: Task.run() calls that returned
    targetq,        \* contents of the qpointer queue
    interrupted,    \* a KeyboardInterrupt/SystemExit was delivered
    quitCalled,     \* quit() was called after process()
    cancelled,      \* unfired tasks that a remove of their name left pending
    recording,      \* whether interrupted, quitCalled, cancelled are kept
    reuse           \* whether a new Task may get the identity of a dead one

vars == <<now, schedule, addq, lockOwner, lockCount, run, stop, pc, wait,
          updated, cleanup, newtask, idx, curtask, exc, nextId, cpc, cname,
          cres, called, runs, targetq, interrupted, quitCalled, cancelled,
          recording, reuse>>

loopVars == <<pc, wait, updated, cleanup, newtask, idx, curtask, exc>>
callerVars == <<cpc, cname, cres>>
lockVars == <<lockOwner, lockCount>>
histVars == <<called, runs, targetq, interrupted, quitCalled, cancelled,
              recording, reuse>>

\* ------------------------------------------------------------------ Task
\* Task.__init__: the record of a new task created at time t.
NewTask(id, name, seconds, repeat, qpointer, t) ==
    [id |-> id, name |-> name, seconds |-> seconds, repeat |-> repeat,
     qpointer |-> qpointer, next |-> t + seconds]

\* The value of the locals newtask and task while they hold no task.
NoTask == [id |-> 0, name |-> None, seconds |-> 0, repeat |-> FALSE,
           qpointer |-> None, next |-> 0]

\* Task.reset: the task with its timer restarted at time t.
reset(task, t) == [task EXCEPT !.next = t + task.seconds]

RunsInlineAlways(task) == TRUE

\* Task.run, line 76: the callback is called inline only without a qpointer.
RunsInline(task) == task.qpointer = None

\* The directive Task.run puts on the qpointer queue (callback and args are
\* those of the task, identified by its id).
Directive(task) == <<"schedule", task.id, task.id>>

\* ------------------------------------------------------------- sequences
RECURSIVE InsertUnlessSameNext(_, _)
InsertUnlessSameNext(task, s) ==
    IF s = <<>> THEN <<task>>
    ELSE IF Head(s).next = task.next THEN s
    ELSE IF Head(s).next < task.next
         THEN <<Head(s)>> \o InsertUnlessSameNext(task, Tail(s))
         ELSE <<task>> \o s

RECURSIVE InsertByNext(_, _)
InsertByNext(task, s) ==
    IF s = <<>> THEN <<task>>
    ELSE IF Head(s).next <= task.next
         THEN <<Head(s)>> \o InsertByNext(task, Tail(s))
         ELSE <<task>> \o s

RECURSIVE SortPrefix(_, _)
SortPrefix(s, n) ==
    IF n = 0 THEN <<>> ELSE InsertByNext(s[n], SortPrefix(s, n - 1))

Unsorted(s) == s

\* sorted(self.schedule, key=lambda task: task.next): a stable sort.
Sorted(s) == SortPrefix(s, Len(s))

\* s without its element at position i.
RemoveAt(s, i) == SubSeq(s, 1, i - 1) \o SubSeq(s, i + 1, Len(s))

\* list.index(task): the first position holding the task object, 0 if none.
IndexOf(s, id) ==
    IF \E i \in 1..Len(s) : s[i].id = id
    THEN CHOOSE i \in 1..Len(s) :
             s[i].id = id /\ \A j \in 1..(i - 1) : s[j].id # id
    ELSE 0

\* Some task of the list has the name.
HasName(s, name) == \E i \in 1..Len(s) : s[i].name = name

RemoveHead(s, name) == IF HasName(s, name) THEN Tail(s) ELSE s

\* remove, lines 218-223: the_task is the last task with the name; list.remove
\* takes out the first occurrence of that object.
RemoveTask(s, name) ==
    IF HasName(s, name)
    THEN LET last == CHOOSE i \in 1..Len(s) :
                         s[i].name = name
                         /\ \A j \in (i + 1)..Len(s) : s[j].name # name
         IN RemoveAt(s, IndexOf(s, s[last].id))
    ELSE s

\* _process, lines 167-168: every task of cleanup is found by list.index.
CleanupOk(s, ids) == \A k \in 1..Len(ids) : IndexOf(s, ids[k]) # 0

\* _process, lines 167-168: pop the tasks of cleanup in order, up to the
\* first one list.index does not find.
RECURSIVE PopAll(_, _)
PopAll(s, ids) ==
    IF ids = <<>> \/ IndexOf(s, Head(ids)) = 0 THEN s
    ELSE PopAll(RemoveAt(s, IndexOf(s, Head(ids))), Tail(ids))

Min(x, y) == IF x <= y THEN x ELSE y

\* ------------------------------------------------------------------ lock
\* RLock.acquire by thread th succeeds when the lock is free or th owns it.
CanAcquire(th) == lockOwner \in {None, th}

Acquire(th) ==
    /\ CanAcquire(th)
    /\ lockOwner' = th
    /\ lockCount' = lockCount + 1

\* RLock.release by its owner.
Release ==
    /\ lockCount' = lockCount - 1
    /\ lockOwner' = IF lockCount = 1 THEN None ELSE lockOwner

\* ------------------------------------------------------------------ Init
\* The scheduler after Scheduler.__init__, no call made yet.
Constructed ==
    /\ now = 0
    /\ schedule = <<>>
    /\ addq = <<>>
    /\ lockOwner = None
    /\ lockCount = 0
    /\ run = FALSE
    /\ stop = FALSE
    /\ pc = "none"
    /\ wait = DefaultWait
    /\ updated = FALSE
    /\ cleanup = <<>>
    /\ newtask = NoTask
    /\ idx = 0
    /\ curtask = NoTask
    /\ exc = "none"
    /\ nextId = 1
    /\ cpc = "idle"
    /\ cname = None
    /\ cres = "none"
    /\ called = [i \in TaskIds |-> 0]
    /\ runs = [i \in TaskIds |-> 0]
    /\ targetq = <<>>
    /\ interrupted = FALSE
    /\ quitCalled = FALSE
    /\ cancelled = {}

\* The history variables interrupted, quitCalled and cancelled record what
\* was done to the scheduler; they are kept only under HistSpec.
Init == Constructed /\ recording = FALSE /\ reuse = FALSE

HistInit == Constructed /\ recording = TRUE /\ reuse = FALSE

\* Task objects are told apart by their identity.  Under Init every object
\* gets a new identity; under ChurnInit the identity of an object that no
\* queue, list or local holds any more and that never fired is given to the
\* next object created, so that tasks can be added and removed without end.
ChurnInit == Constructed /\ recording = FALSE /\ reuse = TRUE

\* ------------------------------------------------------------ environment
\* The clock advances.
Tick ==
    /\ now < MaxTime
    /\ now' = now + 1
    /\ UNCHANGED <<schedule, addq, lockVars, run, stop, loopVars, nextId,
                   callerVars, histVars>>

\* The owner of the stop event sets it.
SetStop ==
    /\ ~stop
    /\ stop' = TRUE
    /\ UNCHANGED <<now, schedule, addq, lockVars, run, loopVars, nextId,
                   callerVars, histVars>>

\* ---------------------------------------------------------- public calls
CheckRunOnly == run

\* _process, line 145: the loop condition.
LoopCondition == run /\ ~stop

\* Scheduler.process(threaded=True): start the loop thread.  One call of
\* process is covered: a scheduler runs one loop thread.
Process ==
    /\ pc = "none"
    /\ pc' = "start"
    /\ UNCHANGED <<now, schedule, addq, lockVars, run, stop, wait, updated,
                   cleanup, newtask, idx, curtask, exc, nextId, callerVars,
                   histVars>>

\* Scheduler.quit.
Quit ==
    /\ run' = FALSE
    /\ quitCalled' = (recording /\ (quitCalled \/ pc # "none"))
    /\ UNCHANGED <<now, schedule, addq, lockVars, stop, loopVars, nextId,
                   callerVars, called, runs, targetq, interrupted,
                   cancelled, recording, reuse>>

\* How often the task was fired: inline calls of its callback plus
\* directives put on the qpointer queue.
Fired(id) ==
    called[id] + Cardinality({k \in 1..Len(targetq) : targetq[k][2] = id})

\* The task is on its way to a firing: in addq, taken from addq by the loop
\* and not yet appended, or in the given schedule.
Pending(id, sched) ==
    \/ \E i \in 1..Len(sched) : sched[i].id = id
    \/ \E i \in 1..Len(addq) : addq[i].id = id
    \/ newtask.id = id

\* The tasks added under the name that have not fired yet.
Unfired(name) ==
    {id \in TaskIds :
        /\ Fired(id) = 0
        /\ \/ \E i \in 1..Len(schedule) :
                  schedule[i].id = id /\ schedule[i].name = name
           \/ \E i \in 1..Len(addq) :
                  addq[i].id = id /\ addq[i].name = name
           \/ newtask.id = id /\ newtask.name = name}

\* Task.__init__, lines 44-67: the identity of the Task object created next.
newId ==
    LET free == {i \in TaskIds :
                    /\ ~Pending(i, schedule)
                    /\ curtask.id # i
                    /\ \A k \in 1..Len(cleanup) : cleanup[k] # i
                    /\ Fired(i) = 0
                    /\ runs[i] = 0}
    IN IF ~reuse THEN nextId
       ELSE IF free = {} THEN MaxAdds + 1
       ELSE CHOOSE i \in free : \A j \in free : i <= j

NameQueued(name) == HasName(addq, name)

\* Scheduler.add, lines 204-205: the scan of self.schedule finds the name.
NameScheduled(name) == HasName(schedule, name)

\* Scheduler.add, lines 202-209: acquire the lock, scan the schedule for the
\* name, raise or put a new Task on addq.
Add ==
    \E a \in AddArgs :
      LET name == a.name
          seconds == a.seconds
          repeat == a.repeat
          qpointer == a.qpointer
      IN
        /\ cpc = "idle"
        /\ newId <= MaxAdds \/ NameScheduled(name)
        /\ Acquire("caller")
        /\ cpc' = "add"
        /\ cname' = name
        /\ IF NameScheduled(name)
           THEN /\ cres' = "UniqueKeyConstraint"
                /\ UNCHANGED <<addq, nextId>>
           ELSE /\ cres' = "ok"
                /\ addq' = Append(addq, NewTask(newId, name, seconds, repeat,
                                                qpointer, now))
                /\ nextId' = IF reuse THEN nextId ELSE nextId + 1
        /\ UNCHANGED <<now, schedule, run, stop, loopVars, histVars>>

\* Scheduler.add, lines 210-213: release the lock; return or re-raise.
AddReturn ==
    /\ cpc = "add"
    /\ Release
    /\ cpc' = "idle"
    /\ cname' = None
    /\ cres' = "none"
    /\ UNCHANGED <<now, schedule, addq, run, stop, loopVars, nextId, histVars>>

\* remove, lines 218-223: the named task leaves the schedule.  Of the tasks
\* of that name not fired so far (firing: the one whose callback is running)
\* those still on their way to a firing are recorded as cancelled.
Removal(name, firing) ==
    /\ schedule' = RemoveTask(schedule, name)
    /\ cancelled' = IF recording
                     THEN {id \in cancelled \cup (Unfired(name) \ firing) :
                              Pending(id, RemoveTask(schedule, name))}
                     ELSE cancelled

\* Scheduler.remove, lines 216-223: acquire the lock, take the named task out
\* of the schedule.
Remove ==
    \E name \in Names :
        /\ cpc = "idle"
        /\ Acquire("caller")
        /\ cpc' = "remove"
        /\ cname' = name
        /\ cres' = IF HasName(schedule, name) THEN "removed" ELSE "absent"
        /\ Removal(name, {})
        /\ UNCHANGED <<now, addq, run, stop, loopVars, nextId, called,
                       runs, targetq, interrupted, quitCalled, recording,
                       reuse>>

\* Scheduler.remove, lines 224-227: release the lock and return.
RemoveReturn ==
    /\ cpc = "remove"
    /\ Release
    /\ cpc' = "idle"
    /\ cname' = None
    /\ cres' = "none"
    /\ UNCHANGED <<now, schedule, addq, run, stop, loopVars, nextId, histVars>>

\* ------------------------------------------------------ the loop thread
\* The locals of _process as the next iteration finds them.  Each local is
\* assigned before it is read, so a local that will not be read again
\* before its next assignment is given this value.
ResetLocals ==
    /\ wait' = DefaultWait
    /\ updated' = FALSE
    /\ cleanup' = <<>>
    /\ newtask' = NoTask
    /\ idx' = 0
    /\ curtask' = NoTask

\* _process, line 143.
LoopStart ==
    /\ pc = "start"
    /\ run' = TRUE
    /\ pc' = "while"
    /\ UNCHANGED <<now, schedule, addq, lockVars, stop, wait, updated,
                   cleanup, newtask, idx, curtask, exc, nextId, callerVars,
                   histVars>>

\* _process, lines 145-148: the loop condition, the defaults of wait and
\* updated, and the test "if self.schedule" (read without the lock).
LoopWhile ==
    /\ pc = "while"
    /\ IF LoopCondition
       THEN pc' = IF schedule # <<>> THEN "idx" ELSE "get"
       ELSE pc' = "done"
    /\ UNCHANGED <<now, schedule, addq, lockVars, run, stop, wait, updated,
                   cleanup, newtask, idx, curtask, exc, nextId, callerVars,
                   histVars>>

Unlimited(w) == w

\* _process, lines 154-155: a wait of 3 or more becomes 3.
Timeout(w) == IF w >= MaxWait THEN MaxWait ELSE w

\* _process, lines 149-155: wait = self.schedule[0].next - time.time(), read
\* without the lock, then limited to 3; IndexError on an empty list leaves
\* _process.
LoopIndexFirst ==
    /\ pc = "idx"
    /\ IF schedule = <<>>
       THEN /\ exc' = "IndexError"
            /\ pc' = "raised"
            /\ wait' = wait
       ELSE /\ wait' = Timeout(schedule[1].next - now)
            /\ pc' = "get"
            /\ exc' = exc
    /\ UNCHANGED <<now, schedule, addq, lockVars, run, stop, updated,
                   cleanup, newtask, idx, curtask, nextId, callerVars,
                   histVars>>

\* _process, lines 151-156: how long addq.get blocks on an empty queue:
\* get(False) returns at once, get(True, wait) after wait.
BlockTime(w) == IF w <= 0 THEN 0 ELSE w

\* _process, lines 151-156 and 170: addq.get returns a task.
LoopGetTask ==
    /\ pc = "get"
    /\ addq # <<>>
    /\ newtask' = Head(addq)
    /\ addq' = Tail(addq)
    /\ pc' = "merge"
    /\ wait' = DefaultWait
    /\ UNCHANGED <<now, schedule, lockVars, run, stop, updated,
                   cleanup, idx, curtask, exc, nextId, callerVars, histVars>>

\* _process, lines 151-158: addq.get raises queue.Empty, at once when
\* wait <= 0 and after the timeout otherwise.
LoopGetEmpty ==
    /\ pc = "get"
    /\ addq = <<>>
    /\ now' = Min(now + BlockTime(wait), MaxTime)
    /\ cleanup' = <<>>
    /\ pc' = "acq"
    /\ wait' = DefaultWait
    /\ UNCHANGED <<schedule, addq, lockVars, run, stop, updated,
                   newtask, idx, curtask, exc, nextId, callerVars, histVars>>

\* _process, lines 159-160: acquire the lock, start the scan.
LoopScanAcquire ==
    /\ pc = "acq"
    /\ Acquire("loop")
    /\ idx' = 1
    /\ pc' = "scan"
    /\ UNCHANGED <<now, schedule, addq, run, stop, wait, updated, cleanup,
                   newtask, curtask, exc, nextId, callerVars, histVars>>

ScanAny == idx <= Len(schedule)

\* _process, line 161: the scan is at a task that is due.
ScanDue == idx <= Len(schedule) /\ now >= schedule[idx].next

\* An inline callback calls remove(name) on its scheduler: the loop thread
\* enters the lock it already holds, takes the task out and leaves the
\* lock held once (remove, lines 216-227).
CallbackRemove(name) ==
    /\ CanAcquire("loop")
    /\ Removal(name, {schedule[idx].id})
    /\ UNCHANGED <<addq, nextId>>

\* An inline callback calls add on its scheduler and the name is not in
\* the schedule (add, lines 202-213); an add that raises
\* UniqueKeyConstraint makes the callback raise or return as any other.
CallbackAdd(a) ==
    /\ CanAcquire("loop")
    /\ newId <= MaxAdds
    /\ ~NameScheduled(a.name)
    /\ addq' = Append(addq, NewTask(newId, a.name, a.seconds, a.repeat,
                                    a.qpointer, now))
    /\ nextId' = IF reuse THEN nextId ELSE nextId + 1
    /\ UNCHANGED <<schedule, cancelled>>

\* _process, lines 161-163, and Task.run, lines 76-79: a due task is fired;
\* an inline callback returns, raises, or calls remove or add and returns.
LoopFire ==
    /\ pc = "scan"
    /\ ScanDue
    /\ updated' = TRUE
    /\ IF RunsInline(schedule[idx])
       THEN /\ called' = [called EXCEPT ![schedule[idx].id] = @ + 1]
            /\ targetq' = targetq
            /\ \/ /\ pc' = "ran"
                  /\ curtask' = schedule[idx]
                  /\ UNCHANGED <<exc, cleanup, idx, schedule, addq, nextId,
                                 cancelled>>
               \/ /\ pc' = "fin"
                  /\ exc' = "Exception"
                  /\ cleanup' = <<>>
                  /\ idx' = 0
                  /\ curtask' = NoTask
                  /\ UNCHANGED <<schedule, addq, nextId, cancelled>>
               \/ /\ \E name \in Names : CallbackRemove(name)
                  /\ pc' = "ran"
                  /\ curtask' = schedule[idx]
                  /\ UNCHANGED <<exc, cleanup, idx>>
               \/ /\ \E a \in AddArgs : CallbackAdd(a)
                  /\ pc' = "ran"
                  /\ curtask' = schedule[idx]
                  /\ UNCHANGED <<exc, cleanup, idx>>
       ELSE /\ targetq' = Append(targetq, Directive(schedule[idx]))
            /\ called' = called
            /\ pc' = "ran"
            /\ curtask' = schedule[idx]
            /\ UNCHANGED <<exc, cleanup, idx, schedule, addq, nextId,
                           cancelled>>
    /\ UNCHANGED <<now, lockVars, run, stop, wait, newtask, callerVars,
                   runs, interrupted, quitCalled, recording, reuse>>

\* Task.run, lines 80-81, and _process, lines 163-164: reset the timer of
\* the task just fired (it is in the schedule unless its callback removed
\* it), note it for clean-up unless it repeats.
LoopTaskReset ==
    /\ pc = "ran"
    /\ LET i == IndexOf(schedule, curtask.id) IN
        schedule' = IF i = 0 THEN schedule
                    ELSE [schedule EXCEPT ![i] = reset(curtask, now)]
    /\ runs' = [runs EXCEPT ![curtask.id] = @ + 1]
    /\ cleanup' = IF curtask.repeat THEN cleanup
                   ELSE Append(cleanup, curtask.id)
    /\ idx' = idx + 1
    /\ curtask' = NoTask
    /\ pc' = "scan"
    /\ UNCHANGED <<now, addq, lockVars, run, stop, wait, updated, newtask,
                   exc, nextId, callerVars, called, targetq, interrupted,
                   quitCalled, cancelled, recording, reuse>>

\* _process, lines 165-168: the scan ends at the first task not due or at
\* the end of the list; the tasks noted for clean-up are popped.
LoopCleanup ==
    /\ pc = "scan"
    /\ ~ScanDue
    /\ schedule' = PopAll(schedule, cleanup)
    /\ exc' = IF CleanupOk(schedule, cleanup) THEN exc ELSE "ValueError"
    /\ pc' = "fin"
    /\ cleanup' = <<>>
    /\ idx' = 0
    /\ UNCHANGED <<now, addq, lockVars, run, stop, wait, updated,
                   newtask, curtask, nextId, callerVars, histVars>>

\* _process, lines 170-173: a task arrived; acquire the lock and append it.
LoopMerge ==
    /\ pc = "merge"
    /\ updated' = TRUE
    /\ Acquire("loop")
    /\ schedule' = Append(schedule, newtask)
    /\ newtask' = NoTask
    /\ pc' = "fin"
    /\ UNCHANGED <<now, addq, run, stop, wait, cleanup, idx, curtask, exc,
                   nextId, callerVars, histVars>>

LoopExitCaught(e) ==
    CASE e \in {"none", "Exception"} -> "while"
      [] e = "KeyboardInterrupt" -> "done"
      [] OTHER -> "raised"

\* _process, lines 145 and 179-183: where the loop thread goes after the
\* finally clause: on to the loop condition, out of the loop through the
\* handler of KeyboardInterrupt/SystemExit, or out of _process with any
\* other exception.
LoopExit(e) ==
    CASE e = "none" -> "while"
      [] e = "KeyboardInterrupt" -> "done"
      [] OTHER -> "raised"

\* _process, lines 174-183: the finally clause sorts the schedule when
\* updated and releases the lock (RuntimeError when this thread does not
\* hold it); then the loop goes on, or the exception leaves the loop:
\* KeyboardInterrupt/SystemExit is caught and clears run, any other
\* exception leaves _process.
LoopFinally ==
    /\ pc = "fin"
    /\ schedule' = IF updated THEN Sorted(schedule) ELSE schedule
    /\ LET held == lockOwner = "loop"
           e == IF held THEN exc ELSE "RuntimeError"
       IN /\ IF held THEN Release ELSE UNCHANGED lockVars
          /\ pc' = LoopExit(e)
          /\ exc' = IF e = "KeyboardInterrupt" THEN "none" ELSE e
          /\ run' = IF e = "KeyboardInterrupt" THEN FALSE ELSE run
    /\ ResetLocals
    /\ UNCHANGED <<now, addq, stop, nextId, callerVars, histVars>>

\* KeyboardInterrupt or SystemExit is delivered to the loop thread: outside
\* the inner try (lines 145-149) the outer handler clears run; inside it
\* (lines 150-173) the finally clause runs first; inside the finally clause
\* (lines 175-178) the sort may or may not have been made, the lock is not
\* released and the outer handler clears run.
Interrupt ==
    /\ exc = "none"
    /\ interrupted' = recording
    /\ \/ /\ pc \in {"while", "idx"}
          /\ run' = FALSE
          /\ pc' = "done"
          /\ UNCHANGED <<updated, exc, schedule>>
       \/ /\ pc \in {"get", "acq", "scan", "ran"}
          /\ exc' = "KeyboardInterrupt"
          /\ pc' = "fin"
          /\ UNCHANGED <<updated, run, schedule>>
       \/ /\ pc = "merge"
          /\ exc' = "KeyboardInterrupt"
          /\ pc' = "fin"
          /\ updated' \in BOOLEAN
          /\ UNCHANGED <<run, schedule>>
       \/ /\ pc = "fin"
          /\ run' = FALSE
          /\ pc' = "done"
          /\ updated' = FALSE
          /\ schedule' \in {schedule,
                            IF updated THEN Sorted(schedule) ELSE schedule}
          /\ exc' = exc
    /\ wait' = DefaultWait
    /\ cleanup' = <<>>
    /\ newtask' = NoTask
    /\ idx' = 0
    /\ curtask' = NoTask
    /\ UNCHANGED <<now, addq, lockVars, stop, nextId, callerVars,
                   called, runs, targetq, quitCalled, cancelled, recording,
                   reuse>>

\* ---------------------------------------------------------- specification
Next ==
    \/ Tick
    \/ SetStop
    \/ Process
    \/ Quit
    \/ Add
    \/ AddReturn
    \/ Remove
    \/ RemoveReturn
    \/ LoopStart
    \/ LoopWhile
    \/ LoopIndexFirst
    \/ LoopGetTask
    \/ LoopGetEmpty
    \/ LoopScanAcquire
    \/ LoopFire
    \/ LoopTaskReset
    \/ LoopCleanup
    \/ LoopMerge
    \/ LoopFinally
    \/ Interrupt

Spec == Init /\ [][Next]_vars

\* The same program with the history variables kept.
HistSpec == HistInit /\ [][Next]_vars

\* A step of the loop thread.
LoopStep ==
    \/ LoopStart
    \/ LoopWhile
    \/ LoopIndexFirst
    \/ LoopGetTask
    \/ LoopGetEmpty
    \/ LoopFire
    \/ LoopTaskReset
    \/ LoopCleanup
    \/ LoopFinally

\* The loop thread and the calling thread keep running; a thread that
\* keeps asking for the lock gets it when it is free again and again.
Fairness ==
    /\ WF_vars(LoopStep)
    /\ SF_vars(LoopScanAcquire)
    /\ SF_vars(LoopMerge)
    /\ WF_vars(AddReturn)
    /\ WF_vars(RemoveReturn)

FairSpec == Init /\ [][Next]_vars /\ Fairness

\* The same threads with tasks added and removed without end.
ChurnSpec == ChurnInit /\ [][Next]_vars /\ Fairness

\* ------------------------------------------------------------------ claims
Tasks(s) == {s[i] : i \in 1..Len(s)}

\* The tasks of s named otherwise than name, in their order.
Others(s, name) == SelectSeq(s, LAMBDA t : t.name # name)

\* The loop thread is between two iterations or has left the loop.
BetweenIterations == pc \in {"while", "done", "raised"}

\* C1: in every reachable state no two tasks of the active list have the
\* same name (so a second add of a name still waiting in addq is refused).
UniqueNames ==
    \A i, j \in 1..Len(schedule) :
        i # j => schedule[i].name # schedule[j].name

\* C2: add(name) with the name in the active list fails with
\* UniqueKeyConstraint, puts nothing on addq and leaves the active list
\* alone; otherwise it puts exactly one new task of that name at the end
\* of addq and raises nothing; in both cases the lock is free when add
\* has returned.
AddContract ==
    [][ /\ (cpc = "idle" /\ cpc' = "add") =>
            /\ schedule' = schedule
            /\ lockOwner' = "caller"
            /\ IF \E t \in Tasks(schedule) : t.name = cname'
               THEN /\ cres' = "UniqueKeyConstraint"
                    /\ addq' = addq
               ELSE /\ cres' = "ok"
                    /\ Len(addq') = Len(addq) + 1
                    /\ SubSeq(addq', 1, Len(addq)) = addq
                    /\ addq'[Len(addq')].name = cname'
        /\ (cpc = "add" /\ cpc' = "idle") =>
            /\ lockOwner' = None
            /\ lockCount' = 0
            /\ addq' = addq
            /\ schedule' = schedule ]_vars

\* C2 witness: an add was refused with UniqueKeyConstraint.
AddRejected == cpc = "add" /\ cres = "UniqueKeyConstraint"

\* C3: a non-repeating task is fired at most once, and once the iteration
\* that fired it has ended it is no longer in the active list.
NonRepeatingFiresOnceAndLeaves ==
    \A t \in Tasks(schedule) :
        ~t.repeat =>
            /\ runs[t.id] <= 1
            /\ BetweenIterations => runs[t.id] = 0

\* C4: a task that had not fired when remove was called with its name is
\* never fired afterwards, whether it was in addq or in the active list.
RemovePreventsFiring == \A id \in cancelled : Fired(id) = 0

\* C5: remove(name) leaves addq and run alone, takes at most one task out
\* of the active list, a task of that name, and leaves the tasks of
\* other names and their order unchanged; without a match it changes
\* nothing and raises nothing.
RemoveContract ==
    [][ (cpc = "idle" /\ cpc' = "remove") =>
            /\ addq' = addq
            /\ run' = run
            /\ Others(schedule', cname') = Others(schedule, cname')
            /\ IF \E t \in Tasks(schedule) : t.name = cname'
               THEN /\ Len(schedule') = Len(schedule) - 1
                    /\ cres' = "removed"
               ELSE /\ schedule' = schedule
                    /\ cres' = "absent" ]_vars

\* C5 witness: remove took a task out and left another one in place.
RemovedOneOfSeveral ==
    cpc = "remove" /\ cres = "removed" /\ schedule # <<>>

\* C6: once quit() has been called after process(), the loop starts no new
\* iteration: when it next evaluates its condition it leaves the loop.
QuitStopsLoop ==
    [][ (quitCalled /\ pc = "while") => pc' \in {"while", "done"} ]_vars

\* C7: once the stop signal is set the loop starts no new iteration,
\* whatever run is, and a started loop eventually ends.
StopSignalHonoured ==
    /\ [][ (stop /\ pc = "while") => pc' \in {"while", "done"} ]_vars
    /\ (stop /\ pc # "none") ~> (pc \in {"done", "raised"})

\* C7 witness: the loop has ended on the stop signal with run still true
\* and tasks in the active list.
StoppedBySignal ==
    stop /\ run /\ pc = "done" /\ schedule # <<>>

\* C8: the callback of a task with a qpointer is never called by the loop;
\* firing it puts exactly one ('schedule', callback, args) directive on
\* the qpointer queue, and then only the task's timer is reset.
DeferredNeverCalled ==
    [][ /\ \A t \in Tasks(schedule') :
               t.qpointer # None => called'[t.id] = 0
        /\ (pc = "scan" /\ pc' = "ran" /\ schedule[idx].qpointer # None) =>
               /\ targetq' = Append(targetq,
                                    <<"schedule", schedule[idx].id,
                                      schedule[idx].id>>)
               /\ schedule' = schedule
               /\ addq' = addq
        /\ (pc = "ran" /\ pc' = "scan" /\ curtask.qpointer # None) =>
               /\ targetq' = targetq
               /\ addq' = addq
               /\ schedule' = [schedule EXCEPT
                                  ![idx].next = now + curtask.seconds]
      ]_vars

\* C8 witness: a task with a qpointer was fired and its timer reset.
DeferredFired ==
    /\ pc = "scan"
    /\ \E t \in Tasks(schedule) :
           t.qpointer # None /\ runs[t.id] > 0 /\ Fired(t.id) > 0

\* C9: after a KeyboardInterrupt or SystemExit in the loop thread the lock
\* is never released unheld, and the loop ends with run false, no other
\* exception raised and the lock not held by the loop thread.
InterruptShutsDownCleanly ==
    interrupted =>
        /\ exc # "RuntimeError"
        /\ pc # "raised"
        /\ pc = "done" => ~run /\ lockOwner # "loop"

\* C10: the loop never indexes the first element of an active list that a
\* remove() emptied after the loop saw it non-empty, as it would not if
\* every read of the list were made under the lock.
IndexUnderGuard ==
    /\ pc = "idx" => schedule # <<>>
    /\ exc # "IndexError"

Known(sched, q, hand) == Tasks(sched) \cup Tasks(q) \cup ({hand} \ {NoTask})

\* C12: no task fires early: a callback is called or a directive queued
\* only for the task the scan is at, at a time >= its next; next is
\* creation time + interval when add makes the task and changes only when
\* the task's timer is reset after a firing, to the time of the reset +
\* interval (so two firings are at least the interval apart); and the
\* clean-up after a scan leaves every repeating task in the active list.
NeverFiresEarly ==
    [][ /\ (called' # called \/ targetq' # targetq) =>
               /\ pc = "scan"
               /\ idx <= Len(schedule)
               /\ now >= schedule[idx].next
               /\ \A id \in TaskIds :
                      Fired(id)' = IF id = schedule[idx].id
                                   THEN Fired(id) + 1 ELSE Fired(id)
        /\ \/ <<schedule, addq, newtask>>' = <<schedule, addq, newtask>>
           \/ \A t \in Known(schedule, addq, newtask)' :
                  IF \E u \in Known(schedule, addq, newtask) : u.id = t.id
                  THEN \/ t \in Known(schedule, addq, newtask)
                       \/ /\ pc = "ran"
                          /\ t.id = curtask.id
                          /\ t = [curtask EXCEPT
                                     !.next = now + curtask.seconds]
                  ELSE /\ t.next = now + t.seconds
                       /\ Fired(t.id) = 0
        /\ (pc = "scan" /\ pc' = "fin" /\ exc' \in {"none", "ValueError"}) =>
               \A t \in Tasks(schedule) : t.repeat => t \in Tasks(schedule')
      ]_vars

\* C12 witness: a repeating task of the active list has fired twice.
FiredTwice ==
    \E t \in Tasks(schedule) : t.repeat /\ runs[t.id] >= 2 /\ pc = "scan"

\* C13: whenever the lock is free the active list is in ascending order of
\* next: after every merge, after every firing scan, also one cut short by
\* a callback that raised, and after every remove.
SortedWhenFree ==
    lockOwner = None =>
        \A i, j \in 1..Len(schedule) :
            i < j => schedule[i].next <= schedule[j].next

\* C13 witness: a callback raised after an earlier task of the same scan
\* had its timer reset; the lock is free again and the task that was reset
\* has moved behind the one whose callback raised.
SortedAfterError ==
    /\ lockOwner = None
    /\ pc = "raised"
    /\ exc = "Exception"
    /\ Len(schedule) >= 2
    /\ runs[schedule[2].id] > 0
    /\ called[schedule[1].id] > 0
    /\ schedule[1].next < schedule[2].next

\* C14: tasks fire in ascending order of next: when a firing scan stops, at
\* the end of the list or at a task not yet due, no task of the active list
\* that is due has been left unfired, and a task is fired only when no
\* other task of the active list (other than those the scan has fired and
\* noted for clean-up) has a strictly earlier next.
FiresInOrder ==
    pc = "scan" =>
        IF idx <= Len(schedule) /\ schedule[idx].next <= now
        THEN \A t \in Tasks(schedule) :
                 \/ t.next >= schedule[idx].next
                 \/ \E k \in 1..Len(cleanup) : cleanup[k] = t.id
        ELSE \A t \in Tasks(schedule) : t.next <= now => Fired(t.id) > 0

\* C15: the wait of an iteration is 1 when the loop found the active list
\* empty, otherwise next of the first task minus now, limited to 3; the poll
\* of addq that finds it empty returns at once when wait <= 0, that is
\* when the first task was due as wait was computed, and after wait
\* otherwise, never after more than 3.
WaitRule ==
    [][ /\ (pc = "while" /\ pc' = "get") =>
               schedule = <<>> /\ wait' = 1
        /\ (pc = "idx" /\ pc' = "get") =>
               /\ schedule # <<>>
               /\ wait' = Min(schedule[1].next - now, 3)
        /\ (pc = "get" /\ pc' = "acq") =>
               /\ wait <= 3
               /\ now' = IF wait <= 0 THEN now ELSE Min(now + wait, MaxTime)
      ]_vars

\* C15 witness: the loop polls addq with a wait limited to 3 while the
\* first task is further away than that.
WaitLimited ==
    /\ pc = "get"
    /\ wait = 3
    /\ schedule # <<>>
    /\ schedule[1].next - now > 3

\* C16: when an inline callback raises, the step leaves the active list and
\* the timers as they are; from then on the error stays raised in the loop
\* thread, which goes through its finally clause and out of _process, and
\* no callback is called, no directive queued and no timer reset any more;
\* the finally clause only sorts the list, so the task stays in it.
CallbackErrorEndsLoop ==
    [][ /\ (exc = "none" /\ exc' = "Exception") =>
               /\ pc = "scan" /\ pc' = "fin"
               /\ schedule' = schedule
               /\ runs' = runs
               /\ called'[schedule[idx].id] = called[schedule[idx].id] + 1
        /\ exc = "Exception" =>
               /\ exc' = "Exception"
               /\ pc \in {"fin", "raised"}
               /\ pc' \in {pc, "raised"}
               /\ called' = called
               /\ targetq' = targetq
               /\ runs' = runs
               /\ pc' # pc => /\ Tasks(schedule') = Tasks(schedule)
                              /\ Len(schedule') = Len(schedule)
                              /\ lockOwner' = None
      ]_vars

\* C16 witness: the loop has left _process with the callback's error; the
\* task whose callback raised is in the active list, still due, and another
\* due task of the list was not fired.
LoopEndedByCallback ==
    /\ pc = "raised"
    /\ exc = "Exception"
    /\ \E t, u \in Tasks(schedule) :
           /\ called[t.id] = 1 /\ runs[t.id] = 0 /\ t.next <= now
           /\ u.id # t.id /\ Fired(u.id) = 0 /\ u.next <= now

\* C17: the loop thread does not hold the lock when it evaluates the loop
\* condition nor after it has left the loop, whichever way the loop ended.
GuardNotKept == BetweenIterations => lockOwner # "loop"

\* The loop thread was started and has left the loop.
LoopOver == pc \in {"done", "raised"}

\* C18: while the loop keeps running, every task in addq is eventually
\* merged into the active list, and every task of the active list that is
\* due is eventually fired unless it is removed, also while other threads
\* keep calling add.
EventuallyMergedAndFired ==
    \A id \in TaskIds :
        /\ (pc # "none" /\ \E t \in Tasks(addq) : t.id = id)
               ~> (LoopOver \/ \E t \in Tasks(schedule) : t.id = id)
        /\ (pc # "none" /\ Fired(id) = 0
              /\ \E t \in Tasks(schedule) : t.id = id /\ t.next <= now)
               ~> \/ LoopOver
                  \/ Fired(id) > 0
                  \/ ~\E t \in Tasks(schedule) : t.id = id

\* C19: the clean-up after a firing scan never fails: every task the scan
\* has noted for removal is in the active list until the clean-up pops it,
\* so list.index never raises ValueError, also when a callback calls
\* remove() or add() on its own scheduler.
CleanupNeverFails ==
    /\ exc # "ValueError"
    /\ pc \in {"scan", "ran"} =>
           \A k \in 1..Len(cleanup) :
               \E t \in Tasks(schedule) : t.id = cleanup[k]

====
